---- MODULE Spec2Model ----
(***************************************************************************)
(* State-machine model of app.py, a Streamlit page that lets a logged-in   *)
(* user chat against a retrieval-augmented language model.                 *)
(*                                                                         *)
(* Every browser tab is a session with its own st.session_state; each user *)
(* interaction re-executes the script top to bottom.  st.cache_resource is *)
(* one process-wide memo table shared by all sessions.  The vector store   *)
(* and the chat-history store are external services.                       *)
(***************************************************************************)
EXTENDS Naturals, Sequences, FiniteSets, TLC

(***************************************************************************)
(* Program constants.                                                      *)
(***************************************************************************)
top_k_vectorstore == 4
top_k_memory == 3

(***************************************************************************)
(* The universe: browser sessions, deployment configuration (st.secrets)   *)
(* and the inputs a user can give.                                         *)
(***************************************************************************)
Sessions == {"s1", "s2"}
\* uuid.uuid4(): distinct sessions draw distinct values
uuid4 == [s \in Sessions |-> IF s = "s1" THEN "u1" ELSE "u2"]
Uuids == {uuid4[s] : s \in Sessions}
NoId == "none"

Users == {"alice", "bob"}
NoUser == ""
\* what can be typed into the login form: the right pairs, a wrong password
\* and a name that is not known
RightLogins == {<<"alice", "pw_alice">>, <<"bob", "pw_bob">>}
WrongLogins == {<<"alice", "pw_bob">>, <<"eve", "pw_alice">>}

passwords == [u \in Users |-> IF u = "alice" THEN "pw_alice" ELSE "pw_bob"]
languages == [u \in Users |-> IF u = "alice" THEN "en" ELSE "nl"]
delete_option == [u \in {"alice"} |-> "True"]

lang_dict ==
    [l \in {"en", "nl"} |->
        IF l = "en"
        THEN [assistant_welcome |-> "Welcome", sources_used |-> "Sources used"]
        ELSE [assistant_welcome |-> "Welkom", sources_used |-> "Gebruikte bronnen"]]

Questions == {"q1", "q2"}
CURSOR == "|"

FileNames == {"a.txt", "a.pdf", "b.docx"}
TempDirs == {"tmp1", "tmp2"}
\* the number of chunks the text splitter cuts each file into
SplitCount == [n \in FileNames |-> IF n = "a.pdf" THEN 2 ELSE 1]
\* the last characters of each file name, as str.endswith reads them
Suffix == [n \in FileNames |-> IF n = "a.txt" THEN "txt" ELSE IF n = "a.pdf" THEN "pdf" ELSE "docx"]

Min(a, b) == IF a < b THEN a ELSE b

VARIABLES
    scope,             \* who uses the process and how much: fixed for a run
    session_id,        \* st.session_state.session_id of each session
    password_correct,  \* st.session_state['password_correct']: "absent", "True", "False"
    user,              \* st.session_state.user
    messages,          \* st.session_state.messages: [present, list]
    page,              \* what the session's last rerun rendered
    globals,           \* the handles the session's running (or last) rerun holds
    pc,                \* where the session's rerun stands
    turn,              \* the locals of the session's conversation turn
    cache,             \* st.cache_resource: one table for the whole process
    built,             \* how often each cached factory body has run since the last clear
    epoch,             \* how often st.cache_resource.clear() has run
    collections,       \* the vector store: one collection per collection name
    chat_store,        \* the chat-history store: one message list per session key
    asked              \* how many questions have been submitted to the process

vars == <<scope, session_id, password_correct, user, messages, page, globals, pc, turn,
          cache, built, epoch, collections, chat_store, asked>>

(***************************************************************************)
(* Messages.                                                               *)
(***************************************************************************)
HumanMessage(content) == [type |-> "human", content |-> content]
AIMessage(content) == [type |-> "ai", content |-> content]
Welcome(username) == AIMessage(<<lang_dict[languages[username]].assistant_welcome>>)
NoMessages == [present |-> FALSE, list |-> <<>>]

\* Mutant of welcome_messages: the list starts empty.
welcome_messages_empty(username) == <<>>

\* [AIMessage(content=lang_dict['assistant_welcome'])]: what the message list
\* is set to when it is created and when the context is deleted
welcome_messages(username) == <<Welcome(username)>>

(***************************************************************************)
(* Cached resources.  A handle is an instance (epoch, serial: the          *)
(* how-manieth instance its factory built since the how-manieth clear of   *)
(* the cache) and what it is bound to: a collection of the vector store,   *)
(* or a session key of the chat-history store.                             *)
(***************************************************************************)
NoKey == <<>>
NoHandle == [epoch |-> 0, serial |-> 0, coll |-> "", key |-> NoKey]

K_embedding == <<"load_embedding">>
K_vectorstore(username) == <<"load_vectorstore", username>>
K_retriever == <<"load_retriever">>
K_model == <<"load_model">>
K_chat_history(username) == <<"load_chat_history", username>>
K_memory == <<"load_memory">>

CacheKeys ==
    {K_embedding, K_retriever, K_model, K_memory}
        \cup {K_vectorstore(u) : u \in Users}
        \cup {K_chat_history(u) : u \in Users}

\* the factory bodies: what a newly built handle is bound to
load_embedding == [coll |-> "", key |-> NoKey]
load_vectorstore(username) == [coll |-> username, key |-> NoKey]
load_retriever(vectorstore) == [coll |-> vectorstore.coll, key |-> NoKey]
load_model == [coll |-> "", key |-> NoKey]
load_chat_history(username, sid) == [coll |-> "", key |-> <<username, sid>>]
load_memory(chat_history) == [coll |-> "", key |-> chat_history.key]

\* Mutant of cache_resource: the memo table is never consulted.
cache_resource_always_builds(c, b, e, k, body) ==
    [epoch |-> e, serial |-> b[k] + 1, coll |-> body.coll, key |-> body.key]

\* A call of a function decorated with st.cache_resource: the stored handle
\* when the table has one under the call's key, a newly built one otherwise.
cache_resource(c, b, e, k, body) ==
    IF c[k].serial # 0
    THEN c[k]
    ELSE [epoch |-> e, serial |-> b[k] + 1, coll |-> body.coll, key |-> body.key]

\* st.cache_resource.clear()
cache_resource_clear(c) == [k \in CacheKeys |-> NoHandle]

\* the factory-run count of a key after a call that returned handle h: one
\* more when h is not an instance the table held
Ran(c, k, n, h) == IF c[k] = h THEN n ELSE n + 1

NoGlobals ==
    [embedding |-> NoHandle, vectorstore |-> NoHandle, retriever |-> NoHandle,
     model |-> NoHandle, chat_history |-> NoHandle, memory |-> NoHandle,
     username |-> NoUser, called |-> 0]

\* The "Initialize" block: every cached constructor is called once, in order;
\* load_retriever and load_memory read the globals set just before them.
Initialize(c, b, e, username, sid) ==
    LET embedding == cache_resource(c, b, e, K_embedding, load_embedding)
        vectorstore == cache_resource(c, b, e, K_vectorstore(username), load_vectorstore(username))
        retriever == cache_resource(c, b, e, K_retriever, load_retriever(vectorstore))
        model == cache_resource(c, b, e, K_model, load_model)
        chat_history == cache_resource(c, b, e, K_chat_history(username),
                                       load_chat_history(username, sid))
        memory == cache_resource(c, b, e, K_memory, load_memory(chat_history))
    IN  [cache |-> [c EXCEPT ![K_embedding] = embedding,
                             ![K_vectorstore(username)] = vectorstore,
                             ![K_retriever] = retriever,
                             ![K_model] = model,
                             ![K_chat_history(username)] = chat_history,
                             ![K_memory] = memory],
         built |-> [b EXCEPT ![K_embedding] = Ran(c, K_embedding, @, embedding),
                             ![K_vectorstore(username)] = Ran(c, K_vectorstore(username), @, vectorstore),
                             ![K_retriever] = Ran(c, K_retriever, @, retriever),
                             ![K_model] = Ran(c, K_model, @, model),
                             ![K_chat_history(username)] = Ran(c, K_chat_history(username), @, chat_history),
                             ![K_memory] = Ran(c, K_memory, @, memory)],
         globals |-> [embedding |-> embedding, vectorstore |-> vectorstore,
                      retriever |-> retriever, model |-> model,
                      chat_history |-> chat_history, memory |-> memory,
                      username |-> username, called |-> e]]

(***************************************************************************)
(* The Memory Window: ConversationBufferWindowMemory(k = top_k_memory)     *)
(* over the message list the chat-history store keeps under one key.       *)
(***************************************************************************)
\* Mutant of load_memory_variables: the window counts messages, not exchanges.
load_memory_variables_k_messages(buffer) ==
    LET n == Len(buffer)
    IN  IF top_k_memory > 0
        THEN SubSeq(buffer, IF n > top_k_memory THEN n - top_k_memory + 1 ELSE 1, n)
        ELSE <<>>

\* buffer[-k * 2:] if k > 0 else []
load_memory_variables(buffer) ==
    LET n == Len(buffer)
        w == top_k_memory * 2
    IN  IF top_k_memory > 0
        THEN SubSeq(buffer, IF n > w THEN n - w + 1 ELSE 1, n)
        ELSE <<>>

\* one exchange: the question as a human message, the answer as an AI message
save_context(buffer, question, answer) ==
    buffer \o <<HumanMessage(<<question>>), AIMessage(answer)>>

\* Mutant of memory_clear: only the newest exchange is dropped.
memory_clear_last_exchange(buffer) ==
    IF Len(buffer) >= 2 THEN SubSeq(buffer, 1, Len(buffer) - 2) ELSE <<>>

\* memory.clear(): every message under the key is deleted
memory_clear(buffer) == <<>>

(***************************************************************************)
(* The vector store and the retriever.                                     *)
(***************************************************************************)
Source(dir, name) == [dir |-> dir, name |-> name]
Chunk(source, part) == [source |-> source, part |-> part]

add_documents(contents, docs) == contents \o docs

vectorstore_clear(contents) == <<>>

Reverse(seq) == [i \in 1..Len(seq) |-> seq[Len(seq) + 1 - i]]

\* The similarity ranking of a collection for a question: a fixed order for a
\* fixed question and fixed contents.
Ranked(contents, question) == IF question = "q1" THEN contents ELSE Reverse(contents)

\* retriever.get_relevant_documents(question), search_kwargs = {"k": top_k_vectorstore}
get_relevant_documents(contents, question) ==
    SubSeq(Ranked(contents, question), 1, Min(top_k_vectorstore, Len(contents)))

(***************************************************************************)
(* Ingestion.                                                              *)
(***************************************************************************)
\* text_splitter.create_documents([text], [{'source': uploaded_file.name}])
create_documents(name) == [i \in 1..SplitCount[name] |-> Chunk(Source("", name), i)]

\* PyPDFLoader(temp_filepath).load() and text_splitter.split_documents(docs):
\* the source of a page is the path of the staged file
split_documents(dir, name) == [i \in 1..SplitCount[name] |-> Chunk(Source(dir, name), i)]

endswith(name, suffix) == Suffix[name] = suffix

\* Mutant of vectorize_loop: a file of another type ends the loop.
RECURSIVE vectorize_loop_stops_at_other(_, _, _, _, _)
vectorize_loop_stops_at_other(uploaded_files, dirs, i, contents, info) ==
    IF i > Len(uploaded_files)
    THEN [contents |-> contents, info |-> info]
    ELSE LET name == uploaded_files[i]
             texts == create_documents(name)
             c1 == IF endswith(name, "txt") THEN add_documents(contents, texts) ELSE contents
             i1 == IF endswith(name, "txt") THEN Append(info, Len(texts)) ELSE info
             pages == split_documents(dirs[i], name)
             c2 == IF endswith(name, "pdf") THEN add_documents(c1, pages) ELSE c1
             i2 == IF endswith(name, "pdf") THEN Append(i1, Len(pages)) ELSE i1
         IN  IF endswith(name, "txt") \/ endswith(name, "pdf")
             THEN vectorize_loop_stops_at_other(uploaded_files, dirs, i + 1, c2, i2)
             ELSE [contents |-> contents, info |-> info]

RECURSIVE vectorize_loop(_, _, _, _, _)
vectorize_loop(uploaded_files, dirs, i, contents, info) ==
    IF i > Len(uploaded_files)
    THEN [contents |-> contents, info |-> info]
    ELSE LET name == uploaded_files[i]
             texts == create_documents(name)
             c1 == IF endswith(name, "txt") THEN add_documents(contents, texts) ELSE contents
             i1 == IF endswith(name, "txt") THEN Append(info, Len(texts)) ELSE info
             pages == split_documents(dirs[i], name)
             c2 == IF endswith(name, "pdf") THEN add_documents(c1, pages) ELSE c1
             i2 == IF endswith(name, "pdf") THEN Append(i1, Len(pages)) ELSE i1
         IN  vectorize_loop(uploaded_files, dirs, i + 1, c2, i2)

\* vectorize_text(uploaded_files): dirs[i] is the temporary directory file i is
\* staged in; the result is the collection afterwards and the st.info counts
vectorize_text(uploaded_files, dirs, contents) ==
    vectorize_loop(uploaded_files, dirs, 1, contents, <<>>)

(***************************************************************************)
(* The sources footer.                                                     *)
(***************************************************************************)
InSeq(x, seq) == \E i \in 1..Len(seq) : seq[i] = x

\* os.path.basename(os.path.normpath(source))
basename(source) == source.name

\* Mutant of sources_loop: no source is checked against the ones seen.
RECURSIVE sources_loop_no_dedup(_, _, _, _)
sources_loop_no_dedup(relevant_documents, i, sources, lines) ==
    IF i > Len(relevant_documents)
    THEN [sources |-> sources, lines |-> lines]
    ELSE LET source == relevant_documents[i].source
         IN  sources_loop_no_dedup(relevant_documents, i + 1,
                                   Append(sources, source), Append(lines, basename(source)))

\* for doc in relevant_documents: a source not seen before adds one footer line
\* (its basename) and is remembered
RECURSIVE sources_loop(_, _, _, _)
sources_loop(relevant_documents, i, sources, lines) ==
    IF i > Len(relevant_documents)
    THEN [sources |-> sources, lines |-> lines]
    ELSE LET source == relevant_documents[i].source
         IN  IF ~InSeq(source, sources)
             THEN sources_loop(relevant_documents, i + 1,
                               Append(sources, source), Append(lines, basename(source)))
             ELSE sources_loop(relevant_documents, i + 1, sources, lines)

\* Mutant of final_content: the answer is rendered without its sources section.
final_content_no_sources(text, username, lines) == text

\* content = response.content + the "sources used" header + the footer lines
final_content(text, username, lines) ==
    text \o <<lang_dict[languages[username]].sources_used>> \o lines

(***************************************************************************)
(* Initial state: no session has loaded the page and the cache is empty.   *)
(* The two stores are external and outlive the process: the chat-history   *)
(* keys are new with every session id, the vector store holds what earlier *)
(* runs left in it.                                                        *)
(***************************************************************************)
StoreKeys == Users \X Uuids

NoTurn ==
    [question |-> "", history |-> <<>>, context |-> <<>>, prompt |-> <<>>,
     stream |-> <<>>, text |-> <<>>, placeholder |-> <<>>,
     relevant_documents |-> <<>>, sources |-> <<>>, footer |-> <<>>, content |-> <<>>,
     queries |-> <<>>]

NoPage == [kind |-> "none", info |-> <<>>]
LoginForm == [kind |-> "login", info |-> <<>>]
LoginError == [kind |-> "login_error", info |-> <<>>]
Exception == [kind |-> "exception", info |-> <<>>]
AppPage(info) == [kind |-> "app", info |-> info]

StartFrom(sc, stored) ==
    /\ scope = sc
    /\ session_id = [s \in Sessions |-> NoId]
    /\ password_correct = [s \in Sessions |-> "absent"]
    /\ user = [s \in Sessions |-> NoUser]
    /\ messages = [s \in Sessions |-> NoMessages]
    /\ page = [s \in Sessions |-> NoPage]
    /\ globals = [s \in Sessions |-> NoGlobals]
    /\ pc = [s \in Sessions |-> "idle"]
    /\ turn = [s \in Sessions |-> NoTurn]
    /\ cache = [k \in CacheKeys |-> NoHandle]
    /\ built = [k \in CacheKeys |-> 0]
    /\ epoch = 0
    /\ collections = stored
    /\ chat_store = [k \in StoreKeys |-> <<>>]
    /\ asked = 0

\* a process whose vector store is empty
Start(sc) == StartFrom(sc, [u \in Users |-> <<>>])

\* no rerun of the session is executing: the script ran to its end, was
\* stopped by st.stop() or was ended by an uncaught exception; the globals
\* and locals of a run live no longer than the run
AtRest(s) == pc[s] = "idle"
InTurn(s) == pc[s] \in {"load", "context", "stream", "post", "save", "append"}
LoggedIn(s) == password_correct[s] = "True"

UserList == <<"alice", "bob">>

RECURSIVE SumLen(_, _, _)
SumLen(f, keys, i) ==
    IF i > Len(keys) THEN 0 ELSE Len(f[keys[i]]) + SumLen(f, keys, i + 1)

TotalChunks == SumLen(collections, UserList, 1)

\* The script from "username = st.session_state.user" to the end of the
\* "Initialize" block, for a session that passed check_password().
ScriptTop(s, username) ==
    LET init == Initialize(cache, built, epoch, username, session_id[s])
    IN  [cache |-> init.cache, built |-> init.built, globals |-> init.globals,
         messages |-> IF messages[s].present
                      THEN messages[s]
                      ELSE [present |-> TRUE, list |-> welcome_messages(username)]]

(***************************************************************************)
(* The first run of the script in a session: the session id is drawn and   *)
(* check_password() shows the login form.                                  *)
(***************************************************************************)
FirstLoad(s) ==
    /\ s \in scope.sessions
    /\ session_id[s] = NoId
    /\ session_id' = [session_id EXCEPT ![s] = uuid4[s]]
    /\ page' = [page EXCEPT ![s] = LoginForm]
    /\ UNCHANGED <<asked, scope, password_correct, user, messages, globals, pc, turn,
                   cache, built, epoch, collections, chat_store>>

(***************************************************************************)
(* Submitting the login form: password_entered(), then the rerun.          *)
(***************************************************************************)
\* Mutant of LoginAttempt: a session that failed once is locked out.
LoginAttempt_locks_out(s, username, password) ==
    /\ session_id[s] # NoId
    /\ ~LoggedIn(s)
    /\ AtRest(s)
    /\ IF /\ username \in DOMAIN passwords /\ password = passwords[username]
          /\ password_correct[s] # "False"
       THEN /\ password_correct' = [password_correct EXCEPT ![s] = "True"]
            /\ user' = [user EXCEPT ![s] = username]
            /\ \E top \in {ScriptTop(s, username)} :
                   /\ cache' = top.cache
                   /\ built' = top.built
                   /\ messages' = [messages EXCEPT ![s] = top.messages]
            /\ page' = [page EXCEPT ![s] = AppPage(<<>>)]
       ELSE /\ password_correct' = [password_correct EXCEPT ![s] = "False"]
            /\ page' = [page EXCEPT ![s] = LoginError]
            /\ UNCHANGED <<user, messages, cache, built>>
    /\ UNCHANGED <<asked, scope, session_id, globals, pc, turn, epoch, collections, chat_store>>

LoginAttempt(s, username, password) ==
    /\ session_id[s] # NoId
    /\ ~LoggedIn(s)
    /\ AtRest(s)
    /\ IF username \in DOMAIN passwords /\ password = passwords[username]
       THEN /\ password_correct' = [password_correct EXCEPT ![s] = "True"]
            /\ user' = [user EXCEPT ![s] = username]
            /\ \E top \in {ScriptTop(s, username)} :
                   /\ cache' = top.cache
                   /\ built' = top.built
                   /\ messages' = [messages EXCEPT ![s] = top.messages]
            /\ page' = [page EXCEPT ![s] = AppPage(<<>>)]
       ELSE /\ password_correct' = [password_correct EXCEPT ![s] = "False"]
            /\ page' = [page EXCEPT ![s] = LoginError]
            /\ UNCHANGED <<user, messages, cache, built>>
    /\ UNCHANGED <<asked, scope, session_id, globals, pc, turn, epoch, collections, chat_store>>

(***************************************************************************)
(* The logout button: logout(), then the rerun, which stops at the login   *)
(* form.                                                                   *)
(***************************************************************************)
\* Mutant of Logout: the session id is dropped with the rest of the session.
Logout_forgets_session(s) ==
    /\ LoggedIn(s)
    /\ AtRest(s)
    /\ epoch < scope.clears
    /\ password_correct' = [password_correct EXCEPT ![s] = "absent"]
    /\ user' = [user EXCEPT ![s] = NoUser]
    /\ messages' = [messages EXCEPT ![s] = NoMessages]
    /\ session_id' = [session_id EXCEPT ![s] = NoId]
    /\ cache' = cache_resource_clear(cache)
    /\ epoch' = epoch + 1
    /\ built' = [k \in CacheKeys |-> 0]
    /\ page' = [page EXCEPT ![s] = NoPage]
    /\ UNCHANGED <<asked, scope, globals, pc, turn, collections, chat_store>>

\* Mutant of Logout: the session stays authenticated.
Logout_stays_authenticated(s) ==
    /\ LoggedIn(s)
    /\ AtRest(s)
    /\ epoch < scope.clears
    /\ messages' = [messages EXCEPT ![s] = NoMessages]
    /\ cache' = cache_resource_clear(cache)
    /\ epoch' = epoch + 1
    /\ built' = [k \in CacheKeys |-> 0]
    /\ page' = [page EXCEPT ![s] = LoginForm]
    /\ UNCHANGED <<asked, scope, session_id, password_correct, user, globals, pc, turn,
                   collections, chat_store>>

Logout(s) ==
    /\ LoggedIn(s)
    /\ AtRest(s)
    /\ epoch < scope.clears
    /\ password_correct' = [password_correct EXCEPT ![s] = "absent"]
    /\ user' = [user EXCEPT ![s] = NoUser]
    /\ messages' = [messages EXCEPT ![s] = NoMessages]
    /\ cache' = cache_resource_clear(cache)
    /\ epoch' = epoch + 1
    /\ built' = [k \in CacheKeys |-> 0]
    /\ page' = [page EXCEPT ![s] = LoginForm]
    /\ UNCHANGED <<asked, scope, session_id, globals, pc, turn, collections, chat_store>>

(***************************************************************************)
(* The upload form: the rerun reaches vectorize_text(uploaded_file).       *)
(***************************************************************************)
\* the uploads the form is submitted with: one file, or two
Batches(files) == {<<f>> : f \in files} \cup {<<f, g>> : f \in files, g \in files}

\* the temporary directories the files of an upload may be staged in; only
\* the PDF loader reads the staged file, so only there the name matters
Stagings(uploaded_files) ==
    {dirs \in [DOMAIN uploaded_files -> TempDirs] :
        \A i \in DOMAIN uploaded_files :
            ~endswith(uploaded_files[i], "pdf") => dirs[i] = "tmp1"}

\* the submitted files, staged in dirs, go through vectorize_text after the
\* script top ran
UploadFiles(s, top, uploaded_files, dirs) ==
    LET coll == top.globals.vectorstore.coll
        done == vectorize_text(uploaded_files, dirs, collections[coll])
    IN  /\ TotalChunks + Len(done.contents) - Len(collections[coll]) <= scope.chunks
        /\ cache' = top.cache
        /\ built' = top.built
        /\ messages' = [messages EXCEPT ![s] = top.messages]
        /\ collections' = [collections EXCEPT ![coll] = done.contents]
        /\ page' = [page EXCEPT ![s] = AppPage(done.info)]

Upload(s) ==
    /\ LoggedIn(s)
    /\ AtRest(s)
    /\ \E top \in {ScriptTop(s, user[s])} :
       \E uploaded_files \in scope.batches :
       \E dirs \in Stagings(uploaded_files) :
           UploadFiles(s, top, uploaded_files, dirs)
    /\ UNCHANGED <<asked, scope, session_id, password_correct, user, globals, pc, turn, epoch, chat_store>>

(***************************************************************************)
(* The delete_memory form.                                                 *)
(***************************************************************************)
DeleteMemory(s) ==
    /\ LoggedIn(s)
    /\ AtRest(s)
    /\ \E top \in {ScriptTop(s, user[s])} :
       LET key == top.globals.memory.key
       IN  /\ cache' = top.cache
           /\ built' = top.built
           /\ messages' = [messages EXCEPT ![s] = top.messages]
           /\ chat_store' = [chat_store EXCEPT ![key] = memory_clear(@)]
    /\ page' = [page EXCEPT ![s] = AppPage(<<>>)]
    /\ UNCHANGED <<asked, scope, session_id, password_correct, user, globals, pc, turn, epoch, collections>>

(***************************************************************************)
(* The delete_context form, shown to the users st.secrets.delete_option    *)
(* sets to 'True'.                                                         *)
(***************************************************************************)
DeleteContext(s) ==
    /\ LoggedIn(s)
    /\ AtRest(s)
    /\ user[s] \in DOMAIN delete_option /\ delete_option[user[s]] = "True"
    /\ \E top \in {ScriptTop(s, user[s])} :
       LET coll == top.globals.vectorstore.coll
           key == top.globals.memory.key
       IN  /\ cache' = top.cache
           /\ built' = top.built
           /\ collections' = [collections EXCEPT ![coll] = vectorstore_clear(@)]
           /\ chat_store' = [chat_store EXCEPT ![key] = memory_clear(@)]
    /\ messages' = [messages EXCEPT ![s] = [present |-> TRUE, list |-> welcome_messages(user[s])]]
    /\ page' = [page EXCEPT ![s] = AppPage(<<>>)]
    /\ UNCHANGED <<asked, scope, session_id, password_correct, user, globals, pc, turn, epoch>>

(***************************************************************************)
(* A conversation turn.  The rerun a submitted question starts is split at *)
(* its accesses to the shared stores, so that the reruns of other sessions *)
(* interleave with it as their threads do.                                 *)
(***************************************************************************)
\* st.chat_input returns the question: the script top runs, the question is
\* appended to the message list and drawn
AskQuestion(s, question) ==
    /\ LoggedIn(s)
    /\ AtRest(s)
    /\ asked < scope.turns
    /\ asked' = asked + 1
    /\ \E top \in {ScriptTop(s, user[s])} :
           /\ cache' = top.cache
           /\ built' = top.built
           /\ globals' = [globals EXCEPT ![s] = top.globals]
           /\ messages' = [messages EXCEPT ![s] =
                              [present |-> TRUE,
                               list |-> Append(top.messages.list, HumanMessage(<<question>>))]]
    /\ page' = [page EXCEPT ![s] = AppPage(<<>>)]
    /\ turn' = [turn EXCEPT ![s] = [NoTurn EXCEPT !.question = question]]
    /\ pc' = [pc EXCEPT ![s] = "load"]
    /\ UNCHANGED <<scope, session_id, password_correct, user, epoch, collections, chat_store>>

\* history = memory.load_memory_variables({})
LoadMemory(s) ==
    /\ pc[s] = "load"
    /\ turn' = [turn EXCEPT ![s].history =
                   load_memory_variables(chat_store[globals[s].memory.key])]
    /\ pc' = [pc EXCEPT ![s] = "context"]
    /\ UNCHANGED <<asked, scope, session_id, password_correct, user, messages, page, globals,
                   cache, built, epoch, collections, chat_store>>

\* chain.invoke: the RunnableMap runs the retriever and passes the history and
\* the question through, the prompt is filled and the model starts to stream
BuildContext(s) ==
    /\ pc[s] = "context"
    /\ LET coll == globals[s].retriever.coll
           context == get_relevant_documents(collections[coll], turn[s].question)
       IN  \E reply \in scope.replies :
               turn' = [turn EXCEPT
                           ![s].context = context,
                           ![s].prompt = <<[context |-> context,
                                            chat_history |-> turn[s].history,
                                            question |-> turn[s].question]>>,
                           ![s].stream = reply,
                           ![s].queries = Append(@, [coll |-> coll,
                                                     question |-> turn[s].question,
                                                     k |-> top_k_vectorstore])]
    /\ pc' = [pc EXCEPT ![s] = "stream"]
    /\ UNCHANGED <<asked, scope, session_id, password_correct, user, messages, page, globals,
                   cache, built, epoch, collections, chat_store>>

\* Mutant of OnLlmNewToken: the buffer is overwritten with the token.
OnLlmNewToken_last_token_only(s) ==
    /\ pc[s] = "stream"
    /\ turn[s].stream # <<>>
    /\ LET text == <<Head(turn[s].stream)>>
       IN  turn' = [turn EXCEPT ![s].text = text,
                                ![s].placeholder = Append(text, CURSOR),
                                ![s].stream = Tail(@)]
    /\ pc' = [pc EXCEPT ![s] = IF Tail(turn[s].stream) = <<>> THEN "post" ELSE "stream"]
    /\ UNCHANGED <<asked, scope, session_id, password_correct, user, messages, page, globals,
                   cache, built, epoch, collections, chat_store>>

\* StreamHandler.on_llm_new_token; after the last token chain.invoke returns
OnLlmNewToken(s) ==
    /\ pc[s] = "stream"
    /\ turn[s].stream # <<>>
    /\ LET text == Append(turn[s].text, Head(turn[s].stream))
       IN  turn' = [turn EXCEPT ![s].text = text,
                                ![s].placeholder = Append(text, CURSOR),
                                ![s].stream = Tail(@)]
    /\ pc' = [pc EXCEPT ![s] = IF Tail(turn[s].stream) = <<>> THEN "post" ELSE "stream"]
    /\ UNCHANGED <<asked, scope, session_id, password_correct, user, messages, page, globals,
                   cache, built, epoch, collections, chat_store>>

\* the second retriever call, the sources footer and the final render
WriteSources(s) ==
    /\ pc[s] = "post"
    /\ LET coll == globals[s].retriever.coll
           relevant_documents == get_relevant_documents(collections[coll], turn[s].question)
           loop == sources_loop(relevant_documents, 1, <<>>, <<>>)
           content == final_content(turn[s].text, globals[s].username, loop.lines)
       IN  turn' = [turn EXCEPT
                       ![s].relevant_documents = relevant_documents,
                       ![s].sources = loop.sources,
                       ![s].footer = loop.lines,
                       ![s].content = content,
                       ![s].placeholder = content,
                       ![s].queries = Append(@, [coll |-> coll,
                                                 question |-> turn[s].question,
                                                 k |-> top_k_vectorstore])]
    /\ pc' = [pc EXCEPT ![s] = "save"]
    /\ UNCHANGED <<asked, scope, session_id, password_correct, user, messages, page, globals,
                   cache, built, epoch, collections, chat_store>>

\* Mutant of SaveContext: the answer is saved without its sources section.
SaveContext_answer_only(s) ==
    /\ pc[s] = "save"
    /\ chat_store' = [chat_store EXCEPT ![globals[s].memory.key] =
                         save_context(@, turn[s].question, turn[s].text)]
    /\ pc' = [pc EXCEPT ![s] = "append"]
    /\ UNCHANGED <<asked, scope, session_id, password_correct, user, messages, page, globals,
                   turn, cache, built, epoch, collections>>

\* memory.save_context({'question': question}, {'answer': content})
SaveContext(s) ==
    /\ pc[s] = "save"
    /\ chat_store' = [chat_store EXCEPT ![globals[s].memory.key] =
                         save_context(@, turn[s].question, turn[s].content)]
    /\ pc' = [pc EXCEPT ![s] = "append"]
    /\ UNCHANGED <<asked, scope, session_id, password_correct, user, messages, page, globals,
                   turn, cache, built, epoch, collections>>

\* st.session_state.messages.append(AIMessage(content=content))
AppendAnswer(s) ==
    /\ pc[s] = "append"
    /\ messages' = [messages EXCEPT ![s].list = Append(@, AIMessage(turn[s].content))]
    /\ pc' = [pc EXCEPT ![s] = "idle"]
    /\ turn' = [turn EXCEPT ![s] = NoTurn]
    /\ globals' = [globals EXCEPT ![s] = NoGlobals]
    /\ UNCHANGED <<asked, scope, session_id, password_correct, user, page,
                   cache, built, epoch, collections, chat_store>>

\* Mutant of PipelineFailure: the draft is saved and logged before the rerun ends.
PipelineFailure_keeps_draft(s) ==
    /\ pc[s] \in {"context", "stream", "post"}
    /\ pc' = [pc EXCEPT ![s] = "idle"]
    /\ turn' = [turn EXCEPT ![s] = NoTurn]
    /\ globals' = [globals EXCEPT ![s] = NoGlobals]
    /\ page' = [page EXCEPT ![s] = Exception]
    /\ chat_store' = [chat_store EXCEPT ![globals[s].memory.key] =
                         save_context(@, turn[s].question, turn[s].text)]
    /\ messages' = [messages EXCEPT ![s].list = Append(@, AIMessage(turn[s].text))]
    /\ UNCHANGED <<asked, scope, session_id, password_correct, user,
                   cache, built, epoch, collections>>

\* The retriever or the model raises: while the context is built, while the
\* model streams, or in the second retriever call.  Nothing catches it, so the
\* rerun ends there.
PipelineFailure(s) ==
    /\ pc[s] \in {"context", "stream", "post"}
    /\ pc' = [pc EXCEPT ![s] = "idle"]
    /\ turn' = [turn EXCEPT ![s] = NoTurn]
    /\ globals' = [globals EXCEPT ![s] = NoGlobals]
    /\ page' = [page EXCEPT ![s] = Exception]
    /\ UNCHANGED <<asked, scope, session_id, password_correct, user, messages,
                   cache, built, epoch, collections, chat_store>>

Next ==
    \/ \E s \in Sessions : FirstLoad(s)
    \/ \E s \in Sessions, attempt \in scope.logins :
           LoginAttempt(s, attempt[1], attempt[2])
    \/ \E s \in Sessions : Logout(s)
    \/ \E s \in Sessions : Upload(s)
    \/ \E s \in Sessions : DeleteMemory(s)
    \/ \E s \in Sessions : DeleteContext(s)
    \/ \E s \in Sessions, question \in scope.questions : AskQuestion(s, question)
    \/ \E s \in Sessions : LoadMemory(s)
    \/ \E s \in Sessions : BuildContext(s)
    \/ \E s \in Sessions : OnLlmNewToken(s)
    \/ \E s \in Sessions : WriteSources(s)
    \/ \E s \in Sessions : SaveContext(s)
    \/ \E s \in Sessions : AppendAnswer(s)
    \/ \E s \in Sessions : PipelineFailure(s)

(***************************************************************************)
(* The whole process: two browser sessions, both users.                    *)
(***************************************************************************)
ProcessTurns == 2
ProcessClears == 1

Process ==
    [sessions |-> Sessions, logins |-> RightLogins \cup WrongLogins, questions |-> {"q1"},
     replies |-> {<<"t1">>}, batches |-> {<<"b.docx">>}, chunks |-> 0,
     turns |-> ProcessTurns, clears |-> ProcessClears]

Init == Start(Process)

Spec == Init /\ [][Next]_vars

(***************************************************************************)
(* One browser session of one user who talks at length: the Memory Window  *)
(* fills past its size.                                                    *)
(***************************************************************************)
MemoryTurns == 5
MemoryClears == 1

Talk ==
    [sessions |-> {"s1"}, logins |-> {<<"alice", "pw_alice">>} \cup WrongLogins,
     questions |-> Questions, replies |-> {<<"t1", "t2">>},
     batches |-> {<<"b.docx">>}, chunks |-> 0,
     turns |-> MemoryTurns, clears |-> MemoryClears]

SpecMemory == Start(Talk) /\ [][Next]_vars

(***************************************************************************)
(* One browser session that uploads documents and asks about them.         *)
(***************************************************************************)
SourcesChunks == 4
SourcesTurns == 1
SourcesClears == 1

Library ==
    [sessions |-> {"s1"}, logins |-> {<<"alice", "pw_alice">>} \cup WrongLogins,
     questions |-> Questions, replies |-> {<<"t1", "t2">>},
     batches |-> Batches(FileNames), chunks |-> SourcesChunks,
     turns |-> SourcesTurns, clears |-> SourcesClears]

SpecSources == Start(Library) /\ [][Next]_vars

(***************************************************************************)
(* One browser session that asks against a collection filled beforehand:   *)
(* every sequence of up to FooterLen chunks of three sources, two of which *)
(* are the same PDF staged in two temporary directories.                   *)
(***************************************************************************)
FooterLen == 4
FooterTurns == 1
FooterClears == 1

StoredSources == {Source("", "a.txt"), Source("tmp1", "a.pdf"), Source("tmp2", "a.pdf")}

Shelves ==
    UNION {[1..n -> {Chunk(source, 1) : source \in StoredSources}] : n \in 0..FooterLen}

Desk ==
    [sessions |-> {"s1"}, logins |-> {<<"alice", "pw_alice">>} \cup WrongLogins,
     questions |-> Questions, replies |-> {<<"t1">>},
     batches |-> {<<"b.docx">>}, chunks |-> FooterLen,
     turns |-> FooterTurns, clears |-> FooterClears]

InitFooter ==
    \E shelf \in Shelves :
        StartFrom(Desk, [u \in Users |-> IF u = "alice" THEN shelf ELSE <<>>])

SpecFooter == InitFooter /\ [][Next]_vars

(***************************************************************************)
(* One browser session whose uploads all hold a file of a type the         *)
(* ingestion does not read.                                                *)
(***************************************************************************)
IngestChunks == 3
IngestTurns == 1
IngestClears == 1

Mixed ==
    [sessions |-> {"s1"}, logins |-> {<<"alice", "pw_alice">>} \cup WrongLogins,
     questions |-> {"q1"}, replies |-> {<<"t1">>},
     batches |-> {b \in Batches(FileNames) : \E i \in 1..Len(b) : b[i] = "b.docx"},
     chunks |-> IngestChunks,
     turns |-> IngestTurns, clears |-> IngestClears]

SpecIngest == Start(Mixed) /\ [][Next]_vars

(***************************************************************************)
(* Two browser sessions of the same user over the one collection of that   *)
(* user: one uploads or deletes while the other is in a turn.              *)
(***************************************************************************)
SharedChunks == 2
SharedTurns == 1
SharedClears == 1

Shared ==
    [sessions |-> Sessions, logins |-> {<<"alice", "pw_alice">>, <<"alice", "pw_bob">>},
     questions |-> {"q1"}, replies |-> {<<"t1">>},
     batches |-> {<<"a.txt">>, <<"a.pdf">>}, chunks |-> SharedChunks,
     turns |-> SharedTurns, clears |-> SharedClears]

SpecShared == Start(Shared) /\ [][Next]_vars

(***************************************************************************)
(* Properties.                                                             *)
(***************************************************************************)
\* the exchange count of a stored message list
Pairs(buffer) == Len(buffer) \div 2

\* C1: after n saves with no clear in between, the load of a turn returns
\* exactly min(n, 3) exchanges, the most recently saved ones, in the order
\* they were saved; the window never holds more than 3 exchanges.
C1_WindowIsLastThree ==
    [][\A s \in Sessions :
          (pc[s] = "load" /\ pc'[s] = "context") =>
              LET buffer == chat_store[globals[s].memory.key]
                  n == Pairs(buffer)
                  m == IF n < 3 THEN n ELSE 3
                  history == turn'[s].history
              IN  /\ Len(buffer) = 2 * n
                  /\ Len(history) = 2 * m
                  /\ Len(history) <= 6
                  /\ \A j \in 1..(2 * m) : history[j] = buffer[2 * (n - m) + j]]_vars

\* C1 witness: a turn loaded three exchanges from a history of four.
C1_Witness ==
    \E s \in Sessions :
        /\ pc[s] = "context"
        /\ Len(chat_store[globals[s].memory.key]) = 8
        /\ Len(turn[s].history) = 6
        /\ turn[s].history[1] = chat_store[globals[s].memory.key][3]

\* C2: right after the delete-memory action, whatever was saved before, a
\* load through the cached memory returns the empty sequence.
C2_ClearThenLoadIsEmpty ==
    [][\A s \in Sessions :
          DeleteMemory(s) =>
              load_memory_variables(chat_store'[cache'[K_memory].key]) = <<>>]_vars

\* C2 witness: the message list still shows a completed answer, which was
\* saved to the memory, and the memory is empty: it was cleared since.
C2_Witness ==
    \E s \in Sessions :
        /\ LoggedIn(s)
        /\ AtRest(s)
        /\ epoch = 0
        /\ Len(messages[s].list) >= 3
        /\ messages[s].list[3].type = "ai"
        /\ cache[K_memory].serial # 0
        /\ chat_store[cache[K_memory].key] = <<>>

\* C3: the memory a turn of session s loads from and saves to is the chat
\* history under the key of that session: its user and its session id.
C3_MemoryOfOwnSession ==
    \A s \in Sessions :
        InTurn(s) => globals[s].memory.key = <<user[s], session_id[s]>>

\* C4: every similarity query of a turn goes to the collection named after
\* the user of the turn.
C4_QueryOwnCollection ==
    \A s \in Sessions :
        \A i \in 1..Len(turn[s].queries) : turn[s].queries[i].coll = user[s]

\* the place of the first chunk of a source in a retrieval result
FirstOccurrence(docs, source) ==
    CHOOSE i \in 1..Len(docs) :
        /\ docs[i].source = source
        /\ \A j \in 1..(i - 1) : docs[j].source # source

\* C5: the footer has one line for each distinct source identifier of the
\* retrieval result, no identifier twice, in the order of first occurrence.
C5_FooterDistinctSourcesInOrder ==
    \A s \in Sessions :
        pc[s] \in {"save", "append"} =>
            LET docs == turn[s].relevant_documents
                sources == turn[s].sources
            IN  /\ \A i, j \in 1..Len(sources) : i # j => sources[i] # sources[j]
                /\ \A i \in 1..Len(docs) : InSeq(docs[i].source, sources)
                /\ \A i \in 1..Len(sources) : \E j \in 1..Len(docs) : docs[j].source = sources[i]
                /\ \A i, j \in 1..Len(sources) :
                       i < j => FirstOccurrence(docs, sources[i]) < FirstOccurrence(docs, sources[j])
                /\ Len(turn[s].footer) = Len(sources)
                /\ \A i \in 1..Len(sources) : turn[s].footer[i] = sources[i].name

\* C5 witness: a retrieval result with sources A, B, A, C was rendered as
\* A, B, C.
C5_Witness ==
    \E s \in Sessions :
        /\ pc[s] = "save"
        /\ [i \in 1..Len(turn[s].relevant_documents) |-> turn[s].relevant_documents[i].source]
               = <<Source("", "a.txt"), Source("tmp1", "a.pdf"),
                   Source("", "a.txt"), Source("tmp2", "a.pdf")>>
        /\ turn[s].sources
               = <<Source("", "a.txt"), Source("tmp1", "a.pdf"), Source("tmp2", "a.pdf")>>

\* C6: no basename is rendered twice in the footer of an answer.
C6_FooterDistinctBasenames ==
    \A s \in Sessions :
        \A i, j \in 1..Len(turn[s].footer) :
            i # j => turn[s].footer[i] # turn[s].footer[j]

C8_FailureKeepsMessagesAndMemory ==
    [][\A s \in Sessions :
          /\ (pc[s] = "idle" /\ pc'[s] = "load") =>
                 /\ Len(messages'[s].list) = Len(messages[s].list) + 1
                 /\ SubSeq(messages'[s].list, 1, Len(messages[s].list)) = messages[s].list
                 /\ chat_store' = chat_store
          /\ (pc[s] \in {"load", "context", "stream", "post"}
                  /\ (pc'[s] # pc[s] \/ turn'[s] # turn[s])) =>
                 /\ messages'[s] = messages[s]
                 /\ chat_store' = chat_store
          /\ (pc[s] \in {"context", "stream", "post"} /\ pc'[s] = "idle") =>
                 /\ turn'[s] = NoTurn
                 /\ asked' = asked
                 /\ page'[s].kind = "exception"]_vars

\* C8 witness: the second turn of a session failed: the first exchange is
\* still in the message list and in the store, followed by the question of
\* the failed turn alone.
C8_Witness ==
    \E s \in Sessions :
        /\ AtRest(s)
        /\ page[s].kind = "exception"
        /\ Len(messages[s].list) = 4
        /\ messages[s].list[3].type = "ai"
        /\ messages[s].list[4].type = "human"
        /\ \E k \in StoreKeys : Len(chat_store[k]) = 2
        /\ \A k \in StoreKeys : Len(chat_store[k]) \in {0, 2}

\* the handles a rerun holds, each with the key its constructor was called with
Held(s) ==
    {<<K_embedding, globals[s].embedding>>,
     <<K_vectorstore(globals[s].username), globals[s].vectorstore>>,
     <<K_retriever, globals[s].retriever>>,
     <<K_model, globals[s].model>>,
     <<K_chat_history(globals[s].username), globals[s].chat_history>>,
     <<K_memory, globals[s].memory>>}

\* C9: between two clears the factory body of a key runs at most once and
\* every call with the key returns the one cached instance; an instance was
\* built after the last clear, so a call after a clear returns a new one.
C9_OneInstancePerKeyAndClear ==
    /\ \A k \in CacheKeys :
           /\ built[k] <= 1
           /\ cache[k].serial # 0 => (cache[k].epoch = epoch /\ cache[k].serial = 1 /\ built[k] = 1)
    /\ \A s \in Sessions :
           InTurn(s) =>
               \A held \in Held(s) :
                   /\ held[2].serial = 1
                   /\ held[2].epoch = globals[s].called
                   /\ globals[s].called = epoch => held[2] = cache[held[1]]
                   /\ globals[s].called # epoch => held[2] # cache[held[1]]

\* C9 witness: two reruns are under way, one begun before a logout cleared
\* the cache and one after it: they hold different instances of the memory.
C9_Witness ==
    \E s, t \in Sessions :
        /\ InTurn(s) /\ InTurn(t)
        /\ globals[s].called = 0
        /\ globals[t].called = 1
        /\ epoch = 1
        /\ globals[t].memory = cache[K_memory]
        /\ globals[s].memory # globals[t].memory

\* a turn with no prior memory against a retriever whose collection holds one
\* chunk of one document, at the end of the turn
OneDocumentTurn(s) ==
    /\ pc[s] = "append"
    /\ turn[s].history = <<>>
    /\ Len(collections[globals[s].retriever.coll]) = 1

\* the rendered output of the turn: the streamed text, then the sources
\* section with the one document named once
OneDocumentOutput(s) ==
    LET coll == globals[s].retriever.coll
        doc == collections[coll][1]
    IN  /\ turn[s].prompt = <<[context |-> <<doc>>, chat_history |-> <<>>,
                               question |-> turn[s].question]>>
        /\ turn[s].text \in scope.replies
        /\ turn[s].placeholder =
               turn[s].text \o <<lang_dict[languages[user[s]]].sources_used, doc.source.name>>

\* C10 as stated: in such a turn the pipeline issues one retrieval query.
C10_OneQuery ==
    \A s \in Sessions :
        OneDocumentTurn(s) =>
            /\ Len(turn[s].queries) = 1
            /\ OneDocumentOutput(s)

\* C10 amended: in such a turn the pipeline issues two retrieval queries with
\* k = 4 for the submitted question, one to build the prompt and one after
\* the response was streamed; the prompt holds the retrieved chunk and the
\* rendered output ends with the sources section naming the document once.
C10_TwoQueries ==
    \A s \in Sessions :
        OneDocumentTurn(s) =>
            /\ Len(turn[s].queries) = 2
            /\ \A i \in 1..2 :
                   turn[s].queries[i] = [coll |-> globals[s].retriever.coll,
                                         question |-> turn[s].question, k |-> 4]
            /\ OneDocumentOutput(s)

\* C10 witness: such a turn reached its end.
C10_Witness ==
    \E s \in Sessions :
        /\ OneDocumentTurn(s)
        /\ turn[s].footer = <<"a.txt">>
        /\ Len(turn[s].context) = 1

\* C11: after a logout, a delete-memory or a delete-context the message list
\* of the session holds no earlier question or answer: it is gone or holds
\* the welcome message alone.
C11_TornDownOnLogoutAndDeletes ==
    [][\A s \in Sessions :
          (Logout(s) \/ DeleteMemory(s) \/ DeleteContext(s)) =>
              \/ ~messages'[s].present
              \/ messages'[s].list = <<Welcome(user[s])>>]_vars

\* C12: a login attempt with an unknown name or a wrong password leaves the
\* session unauthenticated and shows the error with the login form; a
\* session that is not authenticated, whatever it tried before, can submit
\* a right pair, and a right pair authenticates it.
C12_WrongLoginNoLockout ==
    /\ [](\A s \in Sessions :
              (session_id[s] # NoId /\ password_correct[s] # "True") =>
                  \A attempt \in RightLogins :
                      ENABLED (/\ LoginAttempt(s, attempt[1], attempt[2])
                               /\ password_correct'[s] = "True"))
    /\ [][\A s \in Sessions :
              /\ \A attempt \in WrongLogins :
                     LoginAttempt(s, attempt[1], attempt[2]) =>
                         /\ password_correct'[s] = "False"
                         /\ page'[s].kind = "login_error"
                         /\ user'[s] = user[s]
                         /\ ~messages'[s].present
                         /\ pc'[s] = "idle"
              /\ \A attempt \in RightLogins :
                     LoginAttempt(s, attempt[1], attempt[2]) =>
                         /\ password_correct'[s] = "True"
                         /\ user'[s] = attempt[1]
                         /\ page'[s].kind = "app"]_vars

\* C12 witness: a session is shown the error of a failed attempt while the
\* other session is logged in.
C12_Witness ==
    \E s, t \in Sessions :
        /\ password_correct[s] = "False"
        /\ page[s] = LoginError
        /\ user[s] = NoUser
        /\ password_correct[t] = "True"

\* C13: only a session whose password_correct flag is True runs a turn, has
\* a message list, constructs a resource, ingests or deletes; logout takes
\* the flag away, and a session without it does none of these.
C13_GatedByPasswordCorrect ==
    /\ [](\A s \in Sessions :
              (pc[s] # "idle" \/ messages[s].present \/ user[s] # NoUser) =>
                  password_correct[s] = "True")
    /\ [][/\ \A s \in Sessions : Logout(s) => password_correct'[s] = "absent"
          /\ \A s \in Sessions :
                 password_correct'[s] # "True" =>
                     /\ pc'[s] = "idle"
                     /\ ~(\/ Upload(s) \/ DeleteMemory(s) \/ DeleteContext(s)
                          \/ \E question \in Questions : AskQuestion(s, question))
          /\ (\A s \in Sessions : password_correct'[s] # "True") =>
                 /\ \A k \in CacheKeys : built'[k] <= built[k]
                 /\ \A k \in CacheKeys : cache'[k] \in {cache[k], NoHandle}
                 /\ collections' = collections
                 /\ chat_store' = chat_store]_vars

\* C13 witness: a session that took part in the process has logged out and
\* stands at the login form.
C13_Witness ==
    \E s \in Sessions :
        /\ epoch >= 1
        /\ session_id[s] # NoId
        /\ password_correct[s] = "absent"
        /\ page[s] = LoginForm
        /\ \E k \in StoreKeys : chat_store[k] # <<>>
        /\ \A t \in Sessions : ~LoggedIn(t)

\* the steps a rerun takes from one place of a turn to the next
TurnOrder ==
    {<<"idle", "load">>, <<"load", "context">>, <<"context", "stream">>,
     <<"stream", "post">>, <<"post", "save">>, <<"save", "append">>, <<"append", "idle">>}

\* the places where the pipeline can raise
TurnAbort == {<<"context", "idle">>, <<"stream", "idle">>, <<"post", "idle">>}

Last(seq) == seq[Len(seq)]

\* C14: the steps of a turn come in one order and a turn that succeeds skips
\* none: question appended, memory loaded, context retrieved and model
\* streamed to its end, footer built, exchange saved, answer appended; the
\* answer saved is the content appended: the model's text and the footer.
C14_TurnStepsInOrder ==
    [][\A s \in Sessions :
          LET step == <<pc[s], pc'[s]>>
              key == globals[s].memory.key
              header == lang_dict[languages[user[s]]].sources_used
          IN  /\ pc'[s] # pc[s] => step \in TurnOrder \cup TurnAbort
              /\ step = <<"idle", "load">> =>
                     /\ turn'[s].question \in Questions
                     /\ messages'[s].list =
                            Append(messages[s].list,
                                   [type |-> "human", content |-> <<turn'[s].question>>])
                     /\ turn'[s].history = <<>> /\ turn'[s].queries = <<>>
              /\ step = <<"load", "context">> =>
                     /\ turn'[s].history = load_memory_variables(chat_store[key])
                     /\ turn'[s].queries = <<>>
              /\ step = <<"context", "stream">> =>
                     /\ Len(turn'[s].queries) = 1
                     /\ turn'[s].prompt[1].chat_history = turn[s].history
                     /\ turn'[s].prompt[1].context = turn'[s].context
                     /\ turn'[s].stream \in scope.replies
                     /\ turn'[s].text = <<>>
              /\ step = <<"stream", "post">> =>
                     /\ turn'[s].text \in scope.replies
                     /\ turn'[s].footer = <<>> /\ turn'[s].content = <<>>
              /\ step = <<"post", "save">> =>
                     /\ turn'[s].content = turn[s].text \o <<header>> \o turn'[s].footer
                     /\ chat_store' = chat_store
              /\ step = <<"save", "append">> =>
                     /\ chat_store'[key] =
                            chat_store[key] \o
                                <<[type |-> "human", content |-> <<turn[s].question>>],
                                  [type |-> "ai", content |-> turn[s].content]>>
                     /\ messages' = messages
              /\ step = <<"append", "idle">> =>
                     /\ messages'[s].list =
                            Append(messages[s].list, [type |-> "ai", content |-> turn[s].content])
                     /\ Last(chat_store[key]) = Last(messages'[s].list)]_vars

\* C14 witness: a turn over an uploaded text file ran to its end: the answer
\* with its footer is the last message and the last entry of the memory.
C14_Witness ==
    \E s \in Sessions :
        /\ AtRest(s)
        /\ Len(messages[s].list) = 3
        /\ messages[s].list[3].content = <<"t1", "t2", "Sources used", "a.txt">>
        /\ chat_store[<<user[s], session_id[s]>>] =
               <<messages[s].list[2], messages[s].list[3]>>

\* C15: while the model streams, the buffer holds the tokens delivered so
\* far, in order, and the placeholder shows the buffer and the cursor; the
\* final render shows the text and the sources section without the cursor,
\* and nothing is rendered over it in the turn.
C15_StreamedDraftThenFinal ==
    /\ [](\A s \in Sessions :
              LET header == lang_dict[languages[user[s]]].sources_used
              IN  /\ pc[s] \in {"stream", "post"} =>
                         /\ turn[s].text \o turn[s].stream \in scope.replies
                         /\ turn[s].text # <<>> =>
                                turn[s].placeholder = turn[s].text \o <<"|">>
                  /\ pc[s] = "post" => turn[s].stream = <<>>
                  /\ pc[s] \in {"save", "append"} =>
                         /\ turn[s].placeholder = turn[s].text \o <<header>> \o turn[s].footer
                         /\ \A i \in 1..Len(turn[s].placeholder) : turn[s].placeholder[i] # "|")
    /\ [][\A s \in Sessions :
              /\ (pc[s] = "stream" /\ turn'[s] # turn[s] /\ pc'[s] # "idle") =>
                     /\ turn'[s].text = Append(turn[s].text, Head(turn[s].stream))
                     /\ turn'[s].stream = Tail(turn[s].stream)
              /\ (pc[s] \in {"save", "append"} /\ pc'[s] # "idle") =>
                     turn'[s].placeholder = turn[s].placeholder]_vars

\* C15 witness: the first of two tokens has been delivered.
C15_Witness ==
    \E s \in Sessions :
        /\ pc[s] = "stream"
        /\ turn[s].text = <<"t1">>
        /\ turn[s].stream = <<"t2">>
        /\ turn[s].placeholder = <<"t1", "|">>

\* C16: the session id is drawn at the first load of a session and stays the
\* same whatever the session does afterwards.
C16_SessionIdFixed ==
    /\ [](\A s \in Sessions :
              /\ session_id[s] \in {NoId, uuid4[s]}
              /\ (page[s].kind # "none" \/ password_correct[s] # "absent") =>
                     session_id[s] # NoId)
    /\ [][\A s \in Sessions :
              session_id[s] # NoId => session_id'[s] = session_id[s]]_vars

\* C16 witness: the first session was logged in as alice, logged out and
\* logged in as bob: it still has the id alice's history is stored under.
C16_Witness ==
    /\ session_id["s1"] = "u1"
    /\ LoggedIn("s1")
    /\ user["s1"] = "bob"
    /\ epoch >= 1
    /\ chat_store[<<"alice", "u1">>] # <<>>

\* a sequence without its i-th element
RemoveAt(seq, i) == [j \in 1..(Len(seq) - 1) |-> IF j < i THEN seq[j] ELSE seq[j + 1]]

\* C17: a file of an upload whose name ends in neither txt nor pdf adds no
\* chunk and shows no error; the other files of the upload are ingested as
\* if the file had not been in it.
C17_OtherTypesSkipped ==
    [][\A s \in Sessions :
       \A uploaded_files \in scope.batches :
       \A dirs \in Stagings(uploaded_files) :
           (LoggedIn(s) /\ AtRest(s)
                /\ UploadFiles(s, ScriptTop(s, user[s]), uploaded_files, dirs)) =>
               /\ page'[s].kind = "app"
               /\ \A j \in 1..Len(collections'[user[s]]) :
                      Suffix[collections'[user[s]][j].source.name] \in {"txt", "pdf"}
               /\ \A i \in 1..Len(uploaded_files) :
                      Suffix[uploaded_files[i]] \notin {"txt", "pdf"} =>
                          LET rest == vectorize_text(RemoveAt(uploaded_files, i),
                                                     RemoveAt(dirs, i), collections[user[s]])
                          IN  /\ collections'[user[s]] = rest.contents
                              /\ page'[s].info = rest.info
                              /\ \A u \in Users \ {user[s]} : collections'[u] = collections[u]]_vars

\* C17 witness: every upload held a file of another type, and the text file
\* of one of them is in the collection.
C17_Witness ==
    \E s \in Sessions :
        /\ LoggedIn(s)
        /\ page[s] = AppPage(<<1>>)
        /\ collections[user[s]] = <<Chunk(Source("", "a.txt"), 1)>>

\* C18: when no rerun of a session is under way, its message list is the
\* welcome message followed by questions and answers in turn, ending with an
\* answer.
C18_QuestionsAndAnswersAlternate ==
    \A s \in Sessions :
        (AtRest(s) /\ messages[s].present) =>
            /\ Len(messages[s].list) % 2 = 1
            /\ \A i \in 2..Len(messages[s].list) :
                   messages[s].list[i].type = IF i % 2 = 0 THEN "human" ELSE "ai"

\* C19: in a turn that reached its end the sources listed in the footer are
\* the sources of the chunks the model was given as context.
C19_FooterIsContextSources ==
    \A s \in Sessions :
        pc[s] \in {"save", "append"} =>
            {turn[s].sources[i] : i \in 1..Len(turn[s].sources)}
                = {turn[s].context[i].source : i \in 1..Len(turn[s].context)}

====
